---- MODULE Spec2Model ----
(***************************************************************************)
(* The movie_db dataset refresh: the Fetcher (download_imdb_file), the     *)
(* checkpointed update() of the movies, people and aka_titles tables, the  *)
(* title_ids() single-slot cache, and the entity constructors.             *)
(*                                                                         *)
(* Text is modelled as a sequence of symbols.  A symbol is one character   *)
(* (" ", ",") or a run of characters that the code never looks inside      *)
(* ("Documentary", "tt1"); the sequence is their concatenation.  The null  *)
(* field (Python None) is the one-symbol sequence None, which no text      *)
(* holds.                                                                  *)
(***************************************************************************)
EXTENDS Integers, Sequences, FiniteSets, TLC

VARIABLES
    remote,               \* the publisher: per file, its Last-Modified and its content
    files,                \* the local download cache: per path, the file there (if any)
    dirs,                 \* the date directories that exist under the download root
    marker,               \* the paths whose checkpoint marker exists
    db,                   \* the committed tables, as a reader's connection sees them
    txn,                  \* the rebuild in progress on the writer's connection
    cache,                \* the lru_cache(1) slot of title_ids()
    pc,                   \* where the process is
    raised_at,            \* the step whose exception is leaving update(), if one is
    cur,                  \* the entity whose update() is running
    last_modified_date,   \* update()'s locals, from download_imdb_file
    local_file_path,
    downloaded,           \* whether this fetch ran _curl
    extracted,            \* the collection the entity's extractor built
    returned,             \* what the completed fetches saw and returned
    prev_table,           \* the table as it was committed when the body began
    passes,               \* per path, how often the body ran to its end
    accepted,             \* per path, how many rows its last finished pass accepted
    refreshed,            \* the updates that completed since movies.update() last did
    published,            \* how many generations the publisher has put out (bounded)
    input,                \* the argument of the function under test
    output                \* its result

vars == <<remote, files, dirs, marker, db, txn, cache, pc, raised_at, cur, last_modified_date,
          local_file_path, downloaded, extracted, returned, prev_table, passes,
          accepted, refreshed, published, input, output>>

-----------------------------------------------------------------------------
(* Bounds *)

MaxDay == 2
MaxPublish == 1
MaxFetchPublish == 2
MaxNameLen == 5
MaxGenreLen == 3
MaxKnownForLen == 3
MaxSequenceLen == 2
MaxViewings == 2

-----------------------------------------------------------------------------
(* Text *)

None == <<"<None>">>

\* str(x): the text of a field; str(None) is the text "None"
str(x) == IF x = None THEN <<"None">> ELSE x

RECURSIVE SeqsUpTo(_, _)
SeqsUpTo(S, n) ==
    IF n = 0 THEN {<<>>}
    ELSE LET shorter == SeqsUpTo(S, n - 1)
         IN  shorter \cup {Append(s, x) : s \in {t \in shorter : Len(t) = n - 1}, x \in S}

\* s.split(','): the pieces of s between the separators, in order; never empty
RECURSIVE split(_, _)
split(s, sep) ==
    IF \A i \in 1..Len(s) : s[i] # sep THEN <<s>>
    ELSE LET i == CHOOSE k \in 1..Len(s) : s[k] = sep /\ \A j \in 1..(k - 1) : s[j] # sep
         IN  <<SubSeq(s, 1, i - 1)>> \o split(SubSeq(s, i + 1, Len(s)), sep)

Range(s) == {s[i] : i \in 1..Len(s)}

\* fields[i] of a parsed row, with the source's 0-based index
F(fields, i) == fields[i + 1]

-----------------------------------------------------------------------------
(* The files, the timestamps and the cache paths *)

MOVIES_FILE_NAME == "title.basics.tsv.gz"
PEOPLE_FILE_NAME == "name.basics.tsv.gz"
AKA_TITLES_FILE_NAME == "title.akas.tsv.gz"

Entities == {"movies", "people", "aka_titles"}

VIEWINGS_TABLE_NAME == "viewings"

\* the tables of the database
Tables == Entities \cup {VIEWINGS_TABLE_NAME}

FILE_NAME(e) ==
    CASE e = "movies" -> MOVIES_FILE_NAME
      [] e = "people" -> PEOPLE_FILE_NAME
      [] e = "aka_titles" -> AKA_TITLES_FILE_NAME

FileNames == {FILE_NAME(e) : e \in Entities}

DB_DIR == "db"

Days == 1..MaxDay
TimesOfDay == {"06:00:00", "18:00:00"}

\* a Last-Modified value: a calendar date and a time of day
Timestamps == [day : Days, time : TimesOfDay]

\* a bug: strftime('%Y-%m'), and all the days of the model are in one month
strftime_year_month(ts) == 1

\* last_modified_date.strftime('%Y-%m-%d'): the date, without the time of day
strftime(ts) == ts.day

\* path.join(download_root, date), then path.join(download_path, imdb_file_name)
DownloadPath(download_root, ts) == <<download_root, strftime(ts)>>
LocalFilePath(download_path, imdb_file_name) == Append(download_path, imdb_file_name)

DownloadPaths == {DownloadPath(DB_DIR, ts) : ts \in Timestamps}
Paths == {LocalFilePath(d, f) : d \in DownloadPaths, f \in FileNames}

NoTimestamp == [day |-> 0, time |-> "06:00:00"]
NoPath == <<>>
NoFile == [exists |-> FALSE, gen |-> 0, complete |-> FALSE]

-----------------------------------------------------------------------------
(* Python dicts: insertion-ordered, a later value for a key replaces the earlier
   one in place *)

Keys(d) == {d[i].key : i \in 1..Len(d)}

DictPut(d, k, v) ==
    IF k \in Keys(d)
    THEN [i \in 1..Len(d) |-> IF d[i].key = k THEN [key |-> k, value |-> v] ELSE d[i]]
    ELSE Append(d, [key |-> k, value |-> v])

\* list(d.values())
Values(d) == [i \in 1..Len(d) |-> d[i].value]

-----------------------------------------------------------------------------
(* _movies.py *)

\* bool(x) of a field: None and the empty text are falsy
bool(x) == x # None /\ x # <<>>

Movie(fields) ==
    [imdb_id |-> str(F(fields, 0)),
     title |-> str(F(fields, 2)),
     original_title |-> bool(F(fields, 3)),
     year |-> str(F(fields, 5)),
     runtime_minutes |-> str(F(fields, 7))]

\* a bug: the genre field is compared whole, without the split
_title_is_valid_unsplit(title_line) ==
    IF F(title_line, 1) # <<"movie">> THEN FALSE
    ELSE IF F(title_line, 4) = <<"1">> THEN FALSE
    ELSE IF F(title_line, 5) = None THEN FALSE
    ELSE IF str(F(title_line, 8)) = <<"Documentary">> THEN FALSE ELSE TRUE

_title_is_valid(title_line) ==
    IF F(title_line, 1) # <<"movie">> THEN FALSE
    ELSE IF F(title_line, 4) = <<"1">> THEN FALSE
    ELSE IF F(title_line, 5) = None THEN FALSE
    ELSE LET genres == Range(split(str(F(title_line, 8)), ","))
         IN  IF <<"Documentary">> \in genres THEN FALSE ELSE TRUE

RECURSIVE ExtractMoviesLoop(_, _)
ExtractMoviesLoop(rows, movies) ==
    IF rows = <<>> THEN movies
    ELSE LET fields == Head(rows)
         IN  ExtractMoviesLoop(
                 Tail(rows),
                 IF _title_is_valid(fields)
                 THEN DictPut(movies, str(F(fields, 0)), Movie(fields))
                 ELSE movies)

_extract_movies(rows) == ExtractMoviesLoop(rows, <<>>)

\* the row INSERT INTO movies(imdb_id, title, year, runtime_minutes) stores
MoviesRow(movie) ==
    [imdb_id |-> movie.imdb_id, title |-> movie.title, year |-> movie.year,
     runtime_minutes |-> movie.runtime_minutes]

-----------------------------------------------------------------------------
(* _people.py *)

\* what \s matches among the symbols of a name; a field of a tab-separated line
\* holds neither a tab nor a line break
Whitespace == {" ", "<nbsp>"}

\* a bug: ^(.*)\s(.*)$, whose first group runs to the last whitespace
NAME_REGEX_split_greedy(s) ==
    IF \E i \in 1..Len(s) : s[i] \in Whitespace
    THEN LET i == CHOOSE k \in 1..Len(s) :
                      s[k] \in Whitespace /\ \A j \in (k + 1)..Len(s) : s[j] \notin Whitespace
         IN  <<<<>>, SubSeq(s, 1, i - 1), SubSeq(s, i + 1, Len(s)), <<>>>>
    ELSE <<s>>

\* NAME_REGEX.split(s) for NAME_REGEX = ^([^\s]*)\s(.*)$ : the pattern matches all
\* of s or nothing, so the result is ['', group 1, group 2, ''] or [s]
NAME_REGEX_split(s) ==
    IF \E i \in 1..Len(s) : s[i] \in Whitespace
    THEN LET i == CHOOSE k \in 1..Len(s) :
                      s[k] \in Whitespace /\ \A j \in 1..(k - 1) : s[j] \notin Whitespace
         IN  <<<<>>, SubSeq(s, 1, i - 1), SubSeq(s, i + 1, Len(s)), <<>>>>
    ELSE <<s>>

PersonMatch(fields) ==
    LET match == NAME_REGEX_split(str(F(fields, 1)))
    IN  IF Len(match) = 1 THEN <<<<>>, match[1], <<>>, <<>>>> ELSE match

Person(fields) ==
    LET match == PersonMatch(fields)
    IN  [imdb_id |-> str(F(fields, 0)),
         full_name |-> str(F(fields, 1)),
         last_name |-> F(match, 2),
         first_name |-> F(match, 1),
         birth_year |-> F(fields, 2),
         death_year |-> F(fields, 3),
         primary_profession |-> F(fields, 4),
         known_for_title_ids |-> F(fields, 5)]

\* a bug: the field is looked up whole, without split(',')
_has_valid_known_for_title_ids_unsplit(known_for_title_ids, valid_title_ids) ==
    known_for_title_ids # None /\ known_for_title_ids \in valid_title_ids

_has_valid_known_for_title_ids(known_for_title_ids, valid_title_ids) ==
    IF known_for_title_ids = None THEN FALSE
    ELSE \E title_id \in Range(split(known_for_title_ids, ",")) :
             title_id \in valid_title_ids

RECURSIVE ExtractPeopleLoop(_, _, _)
ExtractPeopleLoop(rows, title_ids, people) ==
    IF rows = <<>> THEN people
    ELSE LET fields == Head(rows)
         IN  ExtractPeopleLoop(
                 Tail(rows), title_ids,
                 IF _has_valid_known_for_title_ids(F(fields, 5), title_ids)
                 THEN DictPut(people, str(F(fields, 0)), Person(fields))
                 ELSE people)

_extract_people(rows, title_ids) == ExtractPeopleLoop(rows, title_ids, <<>>)

-----------------------------------------------------------------------------
(* _aka_titles.py *)

Digits == <<"0", "1", "2", "3", "4", "5", "6", "7", "8", "9">>

DigitValue(c) == (CHOOSE i \in 1..10 : Digits[i] = c) - 1

IsInt(s) == s # <<>> /\ \A i \in 1..Len(s) : s[i] \in Range(Digits)

\* int(s) of decimal digits
RECURSIVE int(_)
int(s) ==
    IF Len(s) = 1 THEN DigitValue(s[1])
    ELSE 10 * int(SubSeq(s, 1, Len(s) - 1)) + DigitValue(s[Len(s)])

\* a bug: the rows are numbered anew, every one the first of its movie
AkaTitle_renumbered(fields) ==
    [movie_imdb_id |-> str(F(fields, 0)),
     sequence |-> 1,
     title |-> str(F(fields, 2)),
     region |-> F(fields, 3),
     language |-> F(fields, 4),
     types |-> F(fields, 5),
     attributes |-> F(fields, 6),
     is_original_title |-> F(fields, 7)]

AkaTitle(fields) ==
    [movie_imdb_id |-> str(F(fields, 0)),
     sequence |-> int(str(F(fields, 1))),
     title |-> str(F(fields, 2)),
     region |-> F(fields, 3),
     language |-> F(fields, 4),
     types |-> F(fields, 5),
     attributes |-> F(fields, 6),
     is_original_title |-> F(fields, 7)]

RECURSIVE ExtractAkaTitlesLoop(_, _, _)
ExtractAkaTitlesLoop(rows, title_ids, aka_titles) ==
    IF rows = <<>> THEN aka_titles
    ELSE LET fields == Head(rows)
         IN  ExtractAkaTitlesLoop(
                 Tail(rows), title_ids,
                 IF F(fields, 0) \in title_ids
                 THEN Append(aka_titles, AkaTitle(fields))
                 ELSE aka_titles)

_extract_aka_titles(rows, title_ids) == ExtractAkaTitlesLoop(rows, title_ids, <<>>)

\* AkaTitle(fields) raises ValueError when the sequence field is no integer
AkaTitlesRaise(rows, title_ids) ==
    \E i \in 1..Len(rows) :
        F(rows[i], 0) \in title_ids /\ ~IsInt(str(F(rows[i], 1)))

-----------------------------------------------------------------------------
(* The snapshots the publisher puts out.  A generation of a file is one of a
   few contents; the local copy of a file records which. *)

tt1 == <<"tt1">>
tt2 == <<"tt2">>
tt3 == <<"tt3">>

TitleLine(id, type, adult, year, genres) ==
    <<id, type, <<"Title">>, <<"Title">>, adult, year, None, <<"9", "0">>, genres>>

NameLine(id, name, known_for) ==
    <<id, name, <<"1", "9", "5", "0">>, None, <<"actor">>, known_for>>

AkaLine(id, sequence, title) ==
    <<id, sequence, title, <<"US">>, None, None, None, <<"0">>>>

MoviesSnapshots ==
    << <<TitleLine(tt1, <<"movie">>, <<"0">>, <<"1999">>, <<"Drama">>),
         TitleLine(tt2, <<"movie">>, <<"0">>, <<"2001">>, <<"Drama", ",", "Comedy">>),
         TitleLine(tt3, <<"tvSeries">>, <<"0">>, <<"2001">>, <<"Drama">>)>>,
       <<TitleLine(tt1, <<"movie">>, <<"0">>, <<"1999">>, <<"Drama", ",", "Documentary">>),
         TitleLine(tt2, <<"movie">>, <<"0">>, <<"2001">>, <<"Drama", ",", "Comedy">>)>> >>

PeopleSnapshots ==
    << <<NameLine(<<"nm1">>, <<"John", " ", "Smith">>, tt1),
         NameLine(<<"nm2">>, <<"Madonna">>, <<"tt1", ",", "tt2">>),
         NameLine(<<"nm3">>, <<"Mary", " ", "Jane", " ", "Watson">>, None)>>,
       <<NameLine(<<"nm1">>, <<"John", " ", "Smith">>, <<"tt3", ",", "tt1">>),
         NameLine(<<"nm1">>, <<"John", " ", "Smith">>, <<"tt2">>)>> >>

AkaTitlesSnapshots ==
    << <<AkaLine(tt1, <<"1">>, <<"Titel">>),
         AkaLine(tt2, <<"1">>, <<"Titre">>),
         AkaLine(tt3, <<"1">>, <<"Titulo">>)>>,
       <<AkaLine(tt1, <<"1">>, <<"Titel">>),
         AkaLine(tt1, <<"1", "0">>, <<"Titre">>)>> >>

Snapshots(file_name) ==
    CASE file_name = MOVIES_FILE_NAME -> MoviesSnapshots
      [] file_name = PEOPLE_FILE_NAME -> PeopleSnapshots
      [] file_name = AKA_TITLES_FILE_NAME -> AkaTitlesSnapshots

Generations(file_name) == 1..Len(Snapshots(file_name))

\* _imdb_s3_extractor.extract(path): the rows of the file at path
extract(path) == Snapshots(path[Len(path)])[files[path].gen]

-----------------------------------------------------------------------------
(* The database *)

NoTable == [exists |-> FALSE, rows |-> <<>>]
\* a unit of work: whether one is open, the writer's view of its table (there or
\* not, and its rows) and the other tables it created
NoTxn == [active |-> FALSE, exists |-> FALSE, rows |-> <<>>, created |-> {}]
NoCache == [valid |-> FALSE, ids |-> {}]

\* select imdb_id from movies
SelectImdbIds(table) == {table.rows[i].imdb_id : i \in 1..Len(table.rows)}

\* the parameter_seq of an entity's insert(): one row per member of the collection
parameter_seq(e, collection) ==
    IF e = "movies"
    THEN [i \in 1..Len(collection) |-> MoviesRow(Values(collection)[i])]
    ELSE IF e = "people" THEN Values(collection)
    ELSE collection

-----------------------------------------------------------------------------
(* The initial state: nothing downloaded, an empty database, a fresh process *)

InitRemote == [f \in FileNames |-> [ts |-> [day |-> 1, time |-> "06:00:00"], gen |-> 1]]

InitLocals ==
    /\ txn = NoTxn
    /\ cache = NoCache
    /\ raised_at = "none"
    /\ cur = "none"
    /\ last_modified_date = NoTimestamp
    /\ local_file_path = NoPath
    /\ downloaded = FALSE
    /\ extracted = <<>>
    /\ prev_table = NoTable
    /\ refreshed = {}

InitDisk ==
    /\ remote = InitRemote
    /\ files = [p \in Paths |-> NoFile]
    /\ dirs = {}
    /\ marker = {}
    /\ db = [t \in Tables |-> NoTable]
    /\ returned = {}
    /\ passes = [p \in Paths |-> 0]
    /\ accepted = [p \in Paths |-> 0]
    /\ published = 0

Init ==
    /\ InitDisk
    /\ InitLocals
    /\ pc = "idle"
    /\ input = <<>>
    /\ output = <<>>

\* what a process takes with it when it ends
ResetLocals ==
    /\ txn' = NoTxn
    /\ cache' = NoCache
    /\ pc' = "idle"
    /\ raised_at' = "none"
    /\ cur' = "none"
    /\ last_modified_date' = NoTimestamp
    /\ local_file_path' = NoPath
    /\ downloaded' = FALSE
    /\ extracted' = <<>>
    /\ prev_table' = NoTable
    /\ refreshed' = {}

disk == <<files, dirs, marker, db>>
history == <<returned, passes, accepted>>
locals == <<raised_at, cur, last_modified_date, local_file_path, downloaded, extracted, prev_table>>
pure == <<input, output>>

-----------------------------------------------------------------------------
(* The publisher: a file's next generation has a later Last-Modified and the
   next content *)

NextGeneration(f) == (remote[f].gen % Len(Snapshots(f))) + 1

\* the publisher puts a generation out in the morning or in the evening; the
\* Last-Modified after ts is that of the same day's evening or of the next
\* morning (more generations than the Fetcher looks at change nothing it sees)
NextTimestamps(ts) ==
    {t \in Timestamps :
        \/ t.day = ts.day /\ ts.time = "06:00:00" /\ t.time = "18:00:00"
        \/ t.day = ts.day + 1 /\ t.time = "06:00:00"}

Publish(f, max) ==
    /\ published < max
    /\ \E ts \in NextTimestamps(remote[f].ts) :
           remote' = [remote EXCEPT ![f] = [ts |-> ts, gen |-> NextGeneration(f)]]
    /\ published' = published + 1
    /\ UNCHANGED <<disk, txn, cache, pc, locals, refreshed, history, pure>>

-----------------------------------------------------------------------------
(* download_imdb_file.py, step by step *)

\* the Last-Modified header of the response
_get_last_modified_date(url) == remote[url].ts

\* a bug: the cached file is not looked for
path_exists_never(path) == FALSE

\* path.exists(local_file_path)
path_exists(path) == files[path].exists

\* download_imdb_file(FILE_NAME(e), DB_DIR) is called
download_imdb_file(e) ==
    /\ pc = "idle"
    /\ cur' = e
    /\ pc' = "_get_last_modified_date"
    /\ UNCHANGED <<remote, disk, txn, cache, raised_at, last_modified_date, local_file_path,
                   downloaded, extracted, prev_table, refreshed, history, published, pure>>

fetch_get_last_modified_date ==
    /\ pc = "_get_last_modified_date"
    /\ last_modified_date' = _get_last_modified_date(FILE_NAME(cur))
    /\ pc' = "_ensure_download_path"
    /\ UNCHANGED <<remote, disk, txn, cache, raised_at, cur, local_file_path, downloaded,
                   extracted, prev_table, refreshed, history, published, pure>>

\* makedirs(download_path) unless it exists; then local_file_path is joined
fetch_ensure_download_path ==
    /\ pc = "_ensure_download_path"
    /\ LET download_path == DownloadPath(DB_DIR, last_modified_date)
       IN  /\ dirs' = dirs \cup {download_path}
           /\ local_file_path' = LocalFilePath(download_path, FILE_NAME(cur))
    /\ pc' = "path_exists"
    /\ UNCHANGED <<remote, files, marker, db, txn, cache, raised_at, cur, last_modified_date,
                   downloaded, extracted, prev_table, refreshed, history, published, pure>>

fetch_file_exists ==
    /\ pc = "path_exists"
    /\ path_exists(local_file_path)
    /\ downloaded' = FALSE
    /\ pc' = "download_return"
    /\ UNCHANGED <<remote, disk, txn, cache, raised_at, cur, last_modified_date, local_file_path,
                   extracted, prev_table, refreshed, history, published, pure>>

fetch_downloading ==
    /\ pc = "path_exists"
    /\ ~path_exists(local_file_path)
    /\ pc' = "_curl"
    /\ UNCHANGED <<remote, disk, txn, cache, locals, refreshed, history, published, pure>>

\* curl -o dest url writes to dest itself: the first bytes received create it ...
_curl_begin(url, dest) ==
    [files EXCEPT ![dest] = [exists |-> TRUE, gen |-> remote[url].gen, complete |-> FALSE]]

\* ... and the last ones complete it
_curl_end(dest) == [files EXCEPT ![dest].complete = TRUE]

fetch_curl_begin ==
    /\ pc = "_curl"
    /\ files' = _curl_begin(FILE_NAME(cur), local_file_path)
    /\ pc' = "_curl_transfer"
    /\ UNCHANGED <<remote, dirs, marker, db, txn, cache, locals, refreshed, history,
                   published, pure>>

fetch_curl_end ==
    /\ pc = "_curl_transfer"
    /\ files' = _curl_end(local_file_path)
    /\ downloaded' = TRUE
    /\ pc' = "download_return"
    /\ UNCHANGED <<remote, dirs, marker, db, txn, cache, raised_at, cur, last_modified_date,
                   local_file_path, extracted, prev_table, refreshed, history,
                   published, pure>>

\* return local_file_path
fetch_return ==
    /\ pc = "download_return"
    /\ returned' = returned \cup
           {[name |-> FILE_NAME(cur), ts |-> last_modified_date, path |-> local_file_path]}
    /\ pc' = "idle"
    /\ cur' = "none"
    /\ last_modified_date' = NoTimestamp
    /\ local_file_path' = NoPath
    /\ downloaded' = FALSE
    /\ UNCHANGED <<remote, disk, txn, cache, raised_at, extracted, prev_table, refreshed, passes,
                   accepted, published, pure>>

\* urlopen and curl can fail; curl --fail writes nothing on an HTTP error, and a
\* transfer that breaks off leaves what it had written
FetchRaisingSteps == {"_get_last_modified_date", "_curl", "_curl_transfer"}

fetch_raise ==
    /\ pc \in FetchRaisingSteps
    /\ pc' = "raised"
    /\ raised_at' = pc
    /\ UNCHANGED <<remote, disk, txn, cache, cur, last_modified_date, local_file_path,
                   downloaded, extracted, prev_table, refreshed, history, published, pure>>

\* the exception ends the run
fetch_exit ==
    /\ pc = "raised"
    /\ ResetLocals
    /\ UNCHANGED <<remote, disk, history, published, pure>>

\* the process is killed in the middle of the fetch
fetch_kill ==
    /\ pc \notin {"idle", "raised"}
    /\ ResetLocals
    /\ UNCHANGED <<remote, disk, history, published, pure>>

\* the Fetcher on its own: any sequence of fetches of one resource, the one
\* named by input, while its publisher moves on
InitFetch ==
    /\ InitDisk
    /\ InitLocals
    /\ pc = "idle"
    /\ input \in FileNames
    /\ output = <<>>

NextFetch ==
    \/ \E f \in FileNames : f = input /\ Publish(f, MaxFetchPublish)
    \/ \E e \in Entities : FILE_NAME(e) = input /\ download_imdb_file(e)
    \/ fetch_get_last_modified_date
    \/ fetch_ensure_download_path
    \/ fetch_file_exists
    \/ fetch_downloading
    \/ fetch_curl_begin
    \/ fetch_curl_end
    \/ fetch_return
    \/ fetch_raise
    \/ fetch_exit
    \/ fetch_kill

SpecFetch == InitFetch /\ [][NextFetch]_vars

-----------------------------------------------------------------------------
(* update(): downloaded_file_path = download(FILE_NAME, DB_DIR), the Fetcher
   above, taken in one step *)

update_download(e) ==
    /\ pc = "idle"
    /\ LET url == FILE_NAME(e)
           download_path == DownloadPath(DB_DIR, _get_last_modified_date(url))
           path == LocalFilePath(download_path, url)
       IN  /\ dirs' = dirs \cup {download_path}
           /\ files' = IF path_exists(path) THEN files
                       ELSE [_curl_begin(url, path) EXCEPT ![path].complete = TRUE]
           /\ local_file_path' = path
    /\ cur' = e
    /\ pc' = "checkpoint"
    /\ UNCHANGED <<remote, marker, db, txn, cache, raised_at, last_modified_date,
                   downloaded, extracted, prev_table, refreshed, history, published, pure>>

\* the download breaks off: the file is left as far as it was written
update_download_raises(e) ==
    /\ pc = "idle"
    /\ LET url == FILE_NAME(e)
           download_path == DownloadPath(DB_DIR, _get_last_modified_date(url))
           path == LocalFilePath(download_path, url)
       IN  /\ ~path_exists(path)
           /\ dirs' = dirs \cup {download_path}
           /\ files' = _curl_begin(url, path)
           /\ local_file_path' = path
    /\ cur' = e
    /\ pc' = "raised"
    /\ raised_at' = "_curl_transfer"
    /\ UNCHANGED <<remote, marker, db, txn, cache, last_modified_date, downloaded,
                   extracted, prev_table, refreshed, history, published, pure>>

-----------------------------------------------------------------------------
(* update(): for _ in checkpoint(downloaded_file_path): body *)

\* _imdb_s3_extractor.checkpoint(path): the generator's items before the marker
\* is written; none when the marker is there
checkpoint(path) == IF path \in marker THEN <<>> ELSE <<"generation">>

\* a bug: the body runs whatever the generator yields
LoopBodyRunsAlways(path) == TRUE

\* a bug: the body is never run
LoopBodyRunsNever(path) == FALSE

\* the for statement runs its body once per item
LoopBodyRuns(path) == Len(checkpoint(path)) > 0

checkpoint_skip ==
    /\ pc = "checkpoint"
    /\ ~LoopBodyRuns(local_file_path)
    /\ pc' = "return"
    /\ UNCHANGED <<remote, disk, txn, cache, locals, refreshed, history, published, pure>>

checkpoint_enter ==
    /\ pc = "checkpoint"
    /\ LoopBodyRuns(local_file_path)
    /\ pc' = "extract"
    /\ UNCHANGED <<remote, disk, txn, cache, locals, refreshed, history, published, pure>>

\* an exception leaves the body and update()
Raised(step) ==
    /\ pc' = "raised"
    /\ raised_at' = step

\* gzip reads a file that was cut short up to the cut and then raises
ExtractRaises(path) == ~files[path].complete

movies_extract ==
    /\ pc = "extract"
    /\ cur = "movies"
    /\ IF ExtractRaises(local_file_path)
       THEN /\ Raised("extract")
            /\ UNCHANGED extracted
       ELSE /\ extracted' = _extract_movies(extract(local_file_path))
            /\ pc' = "drop_and_create"
            /\ UNCHANGED raised_at
    /\ UNCHANGED <<remote, disk, txn, cache, cur, last_modified_date, local_file_path,
                   downloaded, prev_table, refreshed, history, published, pure>>

\* title_ids() under lru_cache(1): the slot's value when it has one, else the
\* movies table's ids, which then fill the slot.  Without a movies table the
\* select raises.
TitleIdsRaises == ~cache.valid /\ ~db["movies"].exists
title_ids == IF cache.valid THEN cache.ids ELSE SelectImdbIds(db["movies"])

people_extract ==
    /\ pc = "extract"
    /\ cur = "people"
    /\ IF TitleIdsRaises
       THEN /\ Raised("extract")
            /\ UNCHANGED <<extracted, cache>>
       ELSE /\ cache' = [valid |-> TRUE, ids |-> title_ids]
            /\ IF ExtractRaises(local_file_path)
               THEN /\ Raised("extract")
                    /\ UNCHANGED extracted
               ELSE /\ extracted' = _extract_people(extract(local_file_path), title_ids)
                    /\ pc' = "drop_and_create"
                    /\ UNCHANGED raised_at
    /\ UNCHANGED <<remote, disk, txn, cur, last_modified_date, local_file_path,
                   downloaded, prev_table, refreshed, history, published, pure>>

aka_titles_extract ==
    /\ pc = "extract"
    /\ cur = "aka_titles"
    /\ IF TitleIdsRaises
       THEN /\ Raised("extract")
            /\ UNCHANGED <<extracted, cache>>
       ELSE /\ cache' = [valid |-> TRUE, ids |-> title_ids]
            /\ IF \/ ExtractRaises(local_file_path)
                  \/ AkaTitlesRaise(extract(local_file_path), title_ids)
               THEN /\ Raised("extract")
                    /\ UNCHANGED extracted
               ELSE /\ extracted' = _extract_aka_titles(extract(local_file_path), title_ids)
                    /\ pc' = "drop_and_create"
                    /\ UNCHANGED raised_at
    /\ UNCHANGED <<remote, disk, txn, cur, last_modified_date, local_file_path,
                   downloaded, prev_table, refreshed, history, published, pure>>

-----------------------------------------------------------------------------
(* TableBase: a rebuild is one unit of work on the writer's connection, held in
   txn from _drop_and_create to the end of _validate, where it is committed.
   A reader's connection sees db. *)

\* a bug: the DDL script is committed as it runs, ahead of the rows
_drop_and_create_autocommit(committed, pending) ==
    [committed |-> [exists |-> TRUE, rows |-> <<>>],
     pending |-> [active |-> TRUE, exists |-> TRUE, rows |-> <<>>, created |-> {}]]

\* DROP TABLE IF EXISTS; CREATE TABLE: afterwards the table is there and empty
_drop_and_create(committed, pending) ==
    [committed |-> committed, pending |-> [active |-> TRUE, exists |-> TRUE, rows |-> <<>>, created |-> {}]]

\* executemany(ddl, parameter_seq): one row per parameter set, in order
TableInsert(pending, rows) == [pending EXCEPT !.rows = pending.rows \o rows]

\* the rows read back are as many as were submitted
ValidateOk(pending, collection) == Len(pending.rows) = Len(collection)

\* the end of the unit of work: what was pending is what readers see
Commit(pending) == [exists |-> TRUE, rows |-> pending.rows]

drop_and_create ==
    /\ pc = "drop_and_create"
    /\ prev_table' = db[cur]
    /\ LET after == _drop_and_create(db[cur], txn)
       IN  /\ db' = [db EXCEPT ![cur] = after.committed]
           /\ txn' = after.pending
    /\ pc' = "_insert"
    /\ UNCHANGED <<remote, files, dirs, marker, cache, raised_at, cur,
                   last_modified_date, local_file_path, downloaded, extracted,
                   refreshed, history, published, pure>>

_insert ==
    /\ pc = "_insert"
    /\ txn' = TableInsert(txn, parameter_seq(cur, extracted))
    /\ pc' = "_add_index"
    /\ UNCHANGED <<remote, disk, cache, locals, refreshed, history, published, pure>>

_add_index ==
    /\ pc = "_add_index"
    /\ pc' = "_validate"
    /\ UNCHANGED <<remote, disk, txn, cache, locals, refreshed, history, published, pure>>

\* after insert() returns: title_ids.cache_clear() in movies.update(), the end of
\* the body in the other two
AfterInsert(e) == IF e = "movies" THEN "cache_clear" ELSE "checkpoint_commit"

_validate ==
    /\ pc = "_validate"
    /\ IF ValidateOk(txn, extracted)
       THEN /\ db' = [db EXCEPT ![cur] = Commit(txn)]
            /\ pc' = AfterInsert(cur)
            /\ UNCHANGED raised_at
       ELSE /\ Raised("_validate")
            /\ UNCHANGED db
    /\ txn' = NoTxn
    /\ UNCHANGED <<remote, files, dirs, marker, cache, cur, last_modified_date,
                   local_file_path, downloaded, extracted, prev_table, refreshed,
                   history, published, pure>>

\* a bug: update() does not clear the slot
cache_clear_forgotten == cache

\* title_ids.cache_clear()
cache_clear == NoCache

movies_cache_clear ==
    /\ pc = "cache_clear"
    /\ cache' = cache_clear
    /\ pc' = "checkpoint_commit"
    /\ UNCHANGED <<remote, disk, txn, locals, refreshed, history, published, pure>>

\* the for statement asks the generator for its next item: the body is over,
\* checkpoint() writes the marker and ends
checkpoint_commit ==
    /\ pc = "checkpoint_commit"
    /\ marker' = marker \cup {local_file_path}
    /\ passes' = [passes EXCEPT ![local_file_path] = IF @ < 2 THEN @ + 1 ELSE @]
    /\ accepted' = [accepted EXCEPT ![local_file_path] = Len(extracted)]
    /\ pc' = "return"
    /\ UNCHANGED <<remote, files, dirs, db, txn, cache, locals, returned, refreshed,
                   published, pure>>

\* update() returns to its caller, which goes on to its next call
return ==
    /\ pc = "return"
    /\ refreshed' = IF cur = "movies" THEN {"movies"}
                    ELSE IF "movies" \in refreshed THEN refreshed \cup {cur}
                    ELSE refreshed
    /\ pc' = "idle"
    /\ cur' = "none"
    /\ local_file_path' = NoPath
    /\ extracted' = <<>>
    /\ prev_table' = NoTable
    /\ UNCHANGED <<remote, disk, txn, cache, raised_at, last_modified_date, downloaded,
                   history, published, pure>>

-----------------------------------------------------------------------------
(* Errors and the end of the process *)

\* the database steps can raise; the exception leaves update(), and the
\* connection's open unit of work is rolled back
RaisingSteps == {"drop_and_create", "_insert", "_add_index", "_validate"}

Raise ==
    /\ pc \in RaisingSteps
    /\ Raised(pc)
    /\ txn' = NoTxn
    /\ UNCHANGED <<remote, disk, cache, cur, last_modified_date, local_file_path,
                   downloaded, extracted, prev_table, refreshed, history, published, pure>>

\* a caller that catches the exception goes on in the same process
caller_continues ==
    /\ pc = "raised"
    /\ pc' = "idle"
    /\ raised_at' = "none"
    /\ cur' = "none"
    /\ local_file_path' = NoPath
    /\ extracted' = <<>>
    /\ prev_table' = NoTable
    /\ refreshed' = {}
    /\ UNCHANGED <<remote, disk, txn, cache, last_modified_date, downloaded, history,
                   published, pure>>

\* an exception that left update() ends the run; so does the end of the caller
Exit ==
    /\ pc \in {"idle", "raised"}
    /\ ResetLocals
    /\ UNCHANGED <<remote, disk, history, published, pure>>

\* the process is killed in the middle of update()
Kill ==
    /\ pc \notin {"idle", "raised"}
    /\ ResetLocals
    /\ UNCHANGED <<remote, disk, history, published, pure>>

Next ==
    \/ \E f \in FileNames : pc = "idle" /\ Publish(f, MaxPublish)
    \/ \E e \in Entities : update_download(e)
    \/ \E e \in Entities : update_download_raises(e)
    \/ checkpoint_skip
    \/ checkpoint_enter
    \/ movies_extract
    \/ people_extract
    \/ aka_titles_extract
    \/ drop_and_create
    \/ _insert
    \/ _add_index
    \/ _validate
    \/ movies_cache_clear
    \/ checkpoint_commit
    \/ return
    \/ Raise
    \/ caller_continues
    \/ Exit
    \/ Kill

Spec == Init /\ [][Next]_vars

-----------------------------------------------------------------------------
(* Person(fields) on its own: input is the row, output holds the Person *)

NameSymbols == {"Mary", "Watson", " ", "<nbsp>"}

NameFields == {None} \cup SeqsUpTo(NameSymbols, MaxNameLen)

InitPerson ==
    /\ InitDisk
    /\ InitLocals
    /\ pc = "Person"
    /\ input \in {NameLine(<<"nm1">>, name, tt1) : name \in NameFields}
    /\ output = <<>>

PersonInit ==
    /\ pc = "Person"
    /\ output' = <<Person(input)>>
    /\ pc' = "done"
    /\ UNCHANGED <<remote, disk, txn, cache, locals, refreshed, history, published, input>>

SpecPerson == InitPerson /\ [][PersonInit]_vars

-----------------------------------------------------------------------------
(* _extract_movies on its own: input is the rows of the snapshot, output the
   collection *)

TypeFields == {<<"movie">>, <<"tv", "movie">>, <<"short">>}
AdultFields == {<<"0">>, <<"1">>, None}
YearFields == {<<"1999">>, None}
GenreSymbols == {"Documentary", "Drama", ","}
GenreFields == {None} \cup SeqsUpTo(GenreSymbols, MaxGenreLen)

TitleLines ==
    {TitleLine(id, type, adult, year, genres) :
        id \in {tt1, tt2}, type \in TypeFields, adult \in AdultFields,
        year \in YearFields, genres \in GenreFields}

\* the rows that share a snapshot with the row under test
OtherTitleLines ==
    {TitleLine(tt1, <<"movie">>, <<"0">>, <<"1999">>, <<"Drama">>),
     TitleLine(tt1, <<"movie">>, <<"0">>, <<"1999">>, <<"Documentary">>),
     TitleLine(tt2, <<"movie">>, <<"0">>, <<"2001">>, None),
     TitleLine(tt2, <<"movie">>, <<"1">>, <<"2001">>, <<"Drama">>)}

InitMovies ==
    /\ InitDisk
    /\ InitLocals
    /\ pc = "_extract_movies"
    /\ input \in {<<a>> : a \in TitleLines}
                 \cup {<<a, b>> : a \in TitleLines, b \in OtherTitleLines}
                 \cup {<<b, a>> : a \in TitleLines, b \in OtherTitleLines}
    /\ output = <<>>

ExtractMovies ==
    /\ pc = "_extract_movies"
    /\ output' = _extract_movies(input)
    /\ pc' = "done"
    /\ UNCHANGED <<remote, disk, txn, cache, locals, refreshed, history, published, input>>

SpecMovies == InitMovies /\ [][ExtractMovies]_vars

-----------------------------------------------------------------------------
(* _extract_people on its own: input is the rows of the snapshot, the slot of
   title_ids() holds the accepted Movie ids, output is the collection *)

KnownForSymbols == {"tt1", "tt2", "tt9", ","}
KnownForFields == {None} \cup SeqsUpTo(KnownForSymbols, MaxKnownForLen)

TitleIdSets == SUBSET {tt1, tt2, tt3}

NameLines ==
    {NameLine(id, <<"John", " ", "Smith">>, known_for) :
        id \in {<<"nm1">>, <<"nm2">>}, known_for \in KnownForFields}

\* the rows that share a snapshot with the row under test
OtherNameLines ==
    {NameLine(<<"nm1">>, <<"Madonna">>, tt1),
     NameLine(<<"nm2">>, <<"Madonna">>, None),
     NameLine(<<"nm2">>, <<"Madonna">>, <<"tt3", ",", "tt2">>)}

\* a process in which title_ids() has been called: the slot holds ids
InitPure(ids) ==
    /\ InitDisk
    /\ txn = NoTxn
    /\ cache = [valid |-> TRUE, ids |-> ids]
    /\ raised_at = "none"
    /\ cur = "none"
    /\ last_modified_date = NoTimestamp
    /\ local_file_path = NoPath
    /\ downloaded = FALSE
    /\ extracted = <<>>
    /\ prev_table = NoTable
    /\ refreshed = {}
    /\ output = <<>>

InitPeople ==
    /\ \E ids \in TitleIdSets : InitPure(ids)
    /\ pc = "_extract_people"
    /\ input \in {<<a>> : a \in NameLines}
                 \cup {<<a, b>> : a \in NameLines, b \in OtherNameLines}
                 \cup {<<b, a>> : a \in NameLines, b \in OtherNameLines}

ExtractPeople ==
    /\ pc = "_extract_people"
    /\ output' = _extract_people(input, title_ids)
    /\ pc' = "done"
    /\ UNCHANGED <<remote, disk, txn, cache, locals, refreshed, history, published, input>>

SpecPeople == InitPeople /\ [][ExtractPeople]_vars

-----------------------------------------------------------------------------
(* _extract_aka_titles on its own: input is the rows of the snapshot, the slot
   of title_ids() holds the accepted Movie ids, output is the list *)

SequenceDigits == {"0", "1", "7"}

\* the ordering field of a row: decimal digits in the snapshots; a field that
\* is null, empty or not a number makes int() raise
SequenceFields ==
    (SeqsUpTo(SequenceDigits, MaxSequenceLen) \ {<<>>})
        \cup {None, <<>>, <<"x">>}

AkaLines ==
    {AkaLine(id, sequence, <<"Titel">>) :
        id \in {tt1, tt2, tt3}, sequence \in SequenceFields}

\* the rows that share a snapshot with the row under test
OtherAkaLines ==
    {AkaLine(tt1, <<"1">>, <<"Titre">>),
     AkaLine(tt2, <<"1", "0">>, <<"Titre">>),
     AkaLine(tt3, <<"2">>, <<"Titre">>)}

InitAkaTitles ==
    /\ \E ids \in TitleIdSets : InitPure(ids)
    /\ pc = "_extract_aka_titles"
    /\ input \in {<<a>> : a \in AkaLines}
                 \cup {<<a, b>> : a \in AkaLines, b \in OtherAkaLines}
                 \cup {<<b, a>> : a \in AkaLines, b \in OtherAkaLines}

ExtractAkaTitles ==
    /\ pc = "_extract_aka_titles"
    /\ IF AkaTitlesRaise(input, title_ids)
       THEN /\ pc' = "raised"
            /\ UNCHANGED output
       ELSE /\ output' = _extract_aka_titles(input, title_ids)
            /\ pc' = "done"
    /\ UNCHANGED <<remote, disk, txn, cache, locals, refreshed, history, published, input>>

SpecAkaTitles == InitAkaTitles /\ [][ExtractAkaTitles]_vars

-----------------------------------------------------------------------------
(* viewings.py: update() loads the viewing record files and rebuilds the table.
   input is the record files under viewings/, one mapping each. *)

YamlObjects ==
    [imdb_id : {tt1, tt2}, title : {<<"Title">>}, year : {1999}, venue : {<<"Alamo">>},
     sequence : {1, 2}, date : {[day |-> 1], [day |-> 2]}]

\* Viewing.load(yaml_file_path): the mapping's values under the dataclass's names
Viewing_load(yaml_object) ==
    [imdb_id |-> yaml_object["imdb_id"],
     title |-> yaml_object["title"],
     year |-> yaml_object["year"],
     venue |-> yaml_object["venue"],
     sequence |-> yaml_object["sequence"],
     date |-> yaml_object["date"]]

\* _load_viewings(): one Viewing for each file
_load_viewings(yaml_files) == [i \in 1..Len(yaml_files) |-> Viewing_load(yaml_files[i])]

\* the parameter set of a Viewing for INSERT INTO viewings(movie_imdb_id, date,
\* sequence, venue) VALUES(:imdb_id, :date, :sequence, :venue)
ViewingsRow(viewing) ==
    [movie_imdb_id |-> viewing.imdb_id,
     date |-> viewing.date,
     sequence |-> viewing.sequence,
     venue |-> viewing.venue]

\* the tables the DDL of ViewingsTable.drop_and_create() names:
\* DROP TABLE IF EXISTS "{0}".format(TABLE_NAME); CREATE TABLE "movies"
ViewingsDropped == VIEWINGS_TABLE_NAME
ViewingsCreated == "movies"

\* the database as update() may find it
OldViewings ==
    [exists |-> TRUE,
     rows |-> <<[movie_imdb_id |-> tt3, date |-> [day |-> 1], sequence |-> 1,
                 venue |-> <<"Alamo">>]>>]

OldTable(e) ==
    [exists |-> TRUE,
     rows |-> IF e = "movies"
              THEN parameter_seq(e, _extract_movies(MoviesSnapshots[1]))
              ELSE IF e = "people"
              THEN parameter_seq(e, _extract_people(PeopleSnapshots[1], {tt1, tt2}))
              ELSE parameter_seq(e, _extract_aka_titles(AkaTitlesSnapshots[1], {tt1, tt2}))]

InitViewings ==
    /\ remote = InitRemote
    /\ files = [p \in Paths |-> NoFile]
    /\ dirs = {}
    /\ marker = {}
    /\ \E present \in SUBSET Tables :
           db = [t \in Tables |->
                    IF t \notin present THEN NoTable
                    ELSE IF t = VIEWINGS_TABLE_NAME THEN OldViewings
                    ELSE OldTable(t)]
    /\ returned = {}
    /\ passes = [p \in Paths |-> 0]
    /\ accepted = [p \in Paths |-> 0]
    /\ published = 0
    /\ InitLocals
    /\ pc = "idle"
    /\ input \in SeqsUpTo(YamlObjects, MaxViewings)
    /\ output = <<>>

viewings_update ==
    /\ pc = "idle"
    /\ cur = "none"
    /\ cur' = VIEWINGS_TABLE_NAME
    /\ extracted' = _load_viewings(input)
    /\ pc' = "drop_and_create"
    /\ UNCHANGED <<remote, disk, txn, cache, raised_at, last_modified_date,
                   local_file_path, downloaded, prev_table, refreshed, history,
                   published, pure>>

\* the script runs in the unit of work: the first statement drops the table of
\* this class, the second creates the one it names, and raises when a table of
\* that name is there
ViewingsTable_drop_and_create ==
    /\ pc = "drop_and_create"
    /\ cur = VIEWINGS_TABLE_NAME
    /\ prev_table' = db[cur]
    /\ LET there == {t \in Tables : db[t].exists} \ {ViewingsDropped}
       IN  IF ViewingsCreated \in there
           THEN /\ Raised("drop_and_create")
                /\ txn' = NoTxn
           ELSE /\ txn' = [active |-> TRUE,
                           exists |-> (ViewingsCreated = cur),
                           rows |-> <<>>,
                           created |-> {ViewingsCreated} \ {cur}]
                /\ pc' = "_insert"
                /\ UNCHANGED raised_at
    /\ UNCHANGED <<remote, disk, cache, cur, last_modified_date, local_file_path,
                   downloaded, extracted, refreshed, history, published, pure>>

\* insert(): _insert, three _add_index and _validate on the viewings table; the
\* first statement on a table that is not there raises, and the unit of work is
\* rolled back
ViewingsTable_insert ==
    /\ pc = "_insert"
    /\ cur = VIEWINGS_TABLE_NAME
    /\ LET rows == [i \in 1..Len(extracted) |-> ViewingsRow(extracted[i])]
           pending == TableInsert(txn, rows)
       IN  IF txn.exists /\ ValidateOk(pending, extracted)
           THEN /\ db' = [db EXCEPT ![cur] = Commit(pending)]
                /\ pc' = "return"
                /\ UNCHANGED raised_at
           ELSE /\ Raised("_insert")
                /\ UNCHANGED db
    /\ txn' = NoTxn
    /\ UNCHANGED <<remote, files, dirs, marker, cache, cur, last_modified_date,
                   local_file_path, downloaded, extracted, prev_table, refreshed,
                   history, published, pure>>

NextViewings ==
    \/ viewings_update
    \/ ViewingsTable_drop_and_create
    \/ ViewingsTable_insert

SpecViewings == InitViewings /\ [][NextViewings]_vars

-----------------------------------------------------------------------------
(* The claims *)

BodySteps ==
    {"extract", "drop_and_create", "_insert", "_add_index", "_validate", "cache_clear",
     "checkpoint_commit"}

DependentEntities == {"people", "aka_titles"}

ReferentiallyConsistent ==
    /\ \A i \in 1..Len(db["aka_titles"].rows) :
           db["aka_titles"].rows[i].movie_imdb_id \in SelectImdbIds(db["movies"])
    /\ \A i \in 1..Len(db["people"].rows) :
           _has_valid_known_for_title_ids(
               db["people"].rows[i].known_for_title_ids, SelectImdbIds(db["movies"]))

\* C2: after a completed full refresh (movies.update(), then people.update() and
\* aka_titles.update(), all returned) every aka_titles row and every people row
\* refers to a movie of the movies table.
C2_ConsistentAfterFullRefresh ==
    (pc = "idle" /\ refreshed = Entities)
        => /\ \A e \in Entities : db[e].exists
           /\ ReferentiallyConsistent

\* C3: the body runs to its end at most once per snapshot path, and an update()
\* that returns, skipped or not, leaves as many rows in its table as the one
\* pass for its path accepted.
C3_CheckpointIdempotence ==
    /\ \A p \in Paths : passes[p] <= 1
    /\ pc = "return"
           => /\ passes[local_file_path] = 1
              /\ db[cur].exists
              /\ Len(db[cur].rows) = accepted[local_file_path]

\* an update() whose body was skipped returns, and its table has rows
C3_Witness ==
    /\ pc = "return"
    /\ prev_table = NoTable
    /\ extracted = <<>>
    /\ accepted[local_file_path] > 0

\* C4: a path has its marker only if the body ran to its end for it; while the
\* body runs, and when it was left by an exception or the process was killed in
\* it, the path has no marker; and update() returns only with the marker there,
\* so the next run on a path without one runs the body again.
C4_MarkerState ==
    /\ \A p \in marker : passes[p] >= 1
    /\ pc \in BodySteps => local_file_path \notin marker
    /\ (pc = "raised" /\ raised_at \in BodySteps) => local_file_path \notin marker
    /\ pc = "return" => local_file_path \in marker

C4_MarkerAfterAbort ==
    (pc \in BodySteps /\ pc' \in {"idle", "raised"}) => local_file_path \notin marker'

C4_MarkerOnlyAfterBody == []C4_MarkerState /\ [][C4_MarkerAfterAbort]_vars

\* the body was left by an exception after the table had been recreated
C4_Witness ==
    /\ pc = "raised"
    /\ raised_at = "_validate"
    /\ local_file_path \notin marker

C14_CacheClearedWhenRebuildFails ==
    (pc = "raised" /\ cur = "movies" /\ raised_at \in {"_insert", "_add_index", "_validate"})
        => ~cache.valid

-----------------------------------------------------------------------------
(* The claims about the Fetcher, under SpecFetch *)

\* C5: outside a running transfer, a file is at a final path only if its
\* download completed.
C5_NoPartialFileAtFinalPath ==
    pc # "_curl_transfer" => \A p \in Paths : files[p].exists => files[p].complete

SameResourceAndTimestamp(r) ==
    /\ r.name = FILE_NAME(cur)
    /\ r.ts = last_modified_date

\* C6: a fetch that sees the Last-Modified an earlier completed fetch of the same
\* resource saw does not download and returns the path that one returned.
C6_SecondFetchIsACacheHit ==
    pc = "download_return"
        => \A r \in returned :
               SameResourceAndTimestamp(r) => ~downloaded /\ r.path = local_file_path

C6_Witness ==
    /\ pc = "download_return"
    /\ \E r \in returned : SameResourceAndTimestamp(r)

\* the calendar date of a Last-Modified
DateOf(ts) == ts.day

\* C7, as claimed: two fetches of a resource that saw different Last-Modified
\* values returned different paths.
C7_DistinctTimestampsDistinctPaths ==
    \A a, b \in returned : (a.name = b.name /\ a.ts # b.ts) => a.path # b.path

\* C7, amended: two fetches of a resource returned different paths if and only
\* if the Last-Modified values they saw are of different dates.
C7_DistinctDatesDistinctPaths ==
    \A a, b \in returned :
        a.name = b.name => (a.path # b.path <=> DateOf(a.ts) # DateOf(b.ts))

C7_Witness ==
    \E a, b \in returned : a.name = b.name /\ DateOf(a.ts) # DateOf(b.ts)

-----------------------------------------------------------------------------
(* The claims about Person(fields), under SpecPerson *)

HasWhitespace(name) == \E i \in 1..Len(name) : name[i] \in Whitespace

\* first and last are name cut at its first whitespace character
CutAtFirstWhitespace(name, first, last) ==
    /\ ~HasWhitespace(first)
    /\ \E w \in Whitespace : name = first \o <<w>> \o last

-----------------------------------------------------------------------------
(* The claims about _extract_movies, under SpecMovies *)

\* the comma-separated list has g as one of its members
ListHas(list, g) ==
    \E i \in 1..Len(list) :
        /\ list[i] = g
        /\ i = 1 \/ list[i - 1] = ","
        /\ i = Len(list) \/ list[i + 1] = ","

RowIsAMovie(line) ==
    /\ F(line, 1) = <<"movie">>
    /\ F(line, 4) # <<"1">>
    /\ F(line, 5) # None
    /\ F(line, 8) = None \/ ~ListHas(F(line, 8), "Documentary")

\* C10: the collection's keys are the identifiers of the rows that are of type
\* movie, not adult, with a year and without the genre Documentary; each key is
\* there once and holds a Movie with that identifier.
C10_MoviesAcceptedIffValid ==
    pc = "done"
        => /\ Keys(output) = {F(input[i], 0) : i \in {j \in 1..Len(input) : RowIsAMovie(input[j])}}
           /\ Cardinality(Keys(output)) = Len(output)
           /\ \A i \in 1..Len(output) : output[i].value.imdb_id = output[i].key

\* a row with Documentary among other genres was rejected beside an accepted row
C10_Witness ==
    /\ pc = "done"
    /\ Len(input) = 2
    /\ F(input[1], 1) = <<"movie">> /\ F(input[1], 4) = <<"0">> /\ F(input[1], 5) # None
    /\ F(input[1], 8) = <<"Drama", ",", "Documentary">>
    /\ Keys(output) = {tt2}

-----------------------------------------------------------------------------
(* The claims about _extract_people, under SpecPeople *)

\* some id of the accepted set is a member of the row's known-for list
RowIsKnownFor(line, ids) ==
    /\ F(line, 5) # None
    /\ \E id \in ids : Len(id) = 1 /\ ListHas(F(line, 5), id[1])

\* C11: the collection's keys are the identifiers of the rows that have a member
\* of their comma-separated known-for list in the accepted Movie ids; a row
\* whose list is null or empty is not among them; every other row is left out
\* and the extraction ends with a collection all the same.
C11_PeopleAcceptedIffKnownFor ==
    pc = "done"
        => /\ Keys(output)
                  = {F(input[i], 0) :
                        i \in {j \in 1..Len(input) : RowIsKnownFor(input[j], cache.ids)}}
           /\ \A i \in 1..Len(input) :
                  F(input[i], 5) \in {None, <<>>} => ~RowIsKnownFor(input[i], cache.ids)
           /\ Cardinality(Keys(output)) = Len(output)
           /\ \A i \in 1..Len(output) : output[i].value.imdb_id = output[i].key

\* a row with an accepted id second in its list was accepted beside a row
\* without a list, which was dropped
C11_Witness ==
    /\ pc = "done"
    /\ Len(input) = 2
    /\ cache.ids = {tt1}
    /\ F(input[1], 0) = <<"nm1">>
    /\ F(input[1], 5) = <<"tt9", ",", "tt1">>
    /\ F(input[2], 5) = None
    /\ Keys(output) = {<<"nm1">>}

-----------------------------------------------------------------------------
(* The claims about _extract_aka_titles, under SpecAkaTitles *)

\* the rows of the snapshot whose owner is an accepted Movie id, in their order
RowsOfAcceptedOwners(rows, ids) == SelectSeq(rows, LAMBDA line : F(line, 0) \in ids)

\* C12: the list has one AkaTitle for each row whose owner (field 0) is an
\* accepted Movie id and none for another row, in the order of the rows, each
\* with the number its row's sequence field writes and with the row's other
\* fields.  (The extraction ends otherwise only when the sequence field of such
\* a row is no number.)
C12_AkaTitlesAreAcceptedSubsequence ==
    LET rows == RowsOfAcceptedOwners(input, cache.ids)
    IN  /\ pc = "done"
            => /\ Len(output) = Len(rows)
               /\ \A k \in 1..Len(rows) :
                      /\ output[k].movie_imdb_id = F(rows[k], 0)
                      /\ IsInt(F(rows[k], 1))
                      /\ output[k].sequence = int(F(rows[k], 1))
                      /\ output[k].title = F(rows[k], 2)
                      /\ output[k].region = F(rows[k], 3)
                      /\ output[k].is_original_title = F(rows[k], 7)
        /\ pc = "raised"
            => \E k \in 1..Len(rows) : F(rows[k], 1) = None \/ ~IsInt(F(rows[k], 1))

\* the second row was accepted after a row of another owner was left out, and
\* it kept its number 7, which is not its place in the list
C12_Witness ==
    /\ pc = "done"
    /\ Len(input) = 2
    /\ cache.ids = {tt1}
    /\ F(input[1], 0) = tt3
    /\ F(input[2], 0) = tt1
    /\ F(input[2], 1) = <<"0", "7">>
    /\ Len(output) = 1
    /\ output[1].sequence = 7

-----------------------------------------------------------------------------
(* The claims about viewings.update(), under SpecViewings *)

\* C13: whatever tables the database has, viewings.update() raises nothing, and
\* when it returns the viewings table has one row for each record file, with
\* the file's movie id, date, sequence and venue.
C13_ViewingsRebuiltFromFiles ==
    /\ cur = VIEWINGS_TABLE_NAME => pc # "raised"
    /\ (cur = VIEWINGS_TABLE_NAME /\ pc = "return")
           => /\ db[VIEWINGS_TABLE_NAME].exists
              /\ Len(db[VIEWINGS_TABLE_NAME].rows) = Len(input)
              /\ \A i \in 1..Len(input) :
                     \E k \in 1..Len(input) :
                         db[VIEWINGS_TABLE_NAME].rows[k]
                             = [movie_imdb_id |-> input[i]["imdb_id"],
                                date |-> input[i]["date"],
                                sequence |-> input[i]["sequence"],
                                venue |-> input[i]["venue"]]

\* a step of viewings.update() leaves the tables of the three entities as readers
\* see them, and the writer's unit of work has created none of them
C15_Step ==
    cur' = VIEWINGS_TABLE_NAME
        => /\ \A e \in Entities : db'[e] = db[e]
           /\ txn'.created \cap Entities = {}

\* C15: viewings.update() leaves the movies, people and aka_titles tables as
\* they were and creates no table named movies.
C15_ViewingsUpdateTouchesOnlyViewings == [][C15_Step]_vars

====
